---- MODULE Spec2Model ----
(***************************************************************************)
(* Metamorph: the ingestion / normalization / deduplication / enrichment   *)
(* pipeline of core/fetch_data.py, core/services.py, core/tasks.py and the *)
(* read-only insight views of core/views.py.                               *)
(*                                                                         *)
(* Abstractions.  Timestamps (now()) are not modelled.  uuid.uuid4() is a  *)
(* counter nextUuid: every call returns a value never returned before.     *)
(* The business fields of a source item other than its identity (title,    *)
(* price, name, status, ...) are one value, `body`.  A JSON value is a     *)
(* record [k, v]: k is its JSON type, v its content.                       *)
(***************************************************************************)
EXTENDS Integers, Sequences, FiniteSets, TLC

\* ------------------------------------------------------------------ bounds
MaxId == 1
MaxBody == 2
MaxItems == 2
MaxCalls == 3
MaxFetched == 1
MaxUsers == 2
MaxProducts == 2
MaxCategories == 1
MaxTxn == 2
MaxAmount == 2
MaxWorkers == 2

\* ------------------------------------------------------------ JSON values
JNull == [k |-> "null", v |-> 0]
JAbsent == [k |-> "absent", v |-> 0]
JNum(n) == [k |-> "num", v |-> n]
JStr(n) == [k |-> "str", v |-> n]

\* Python truthiness of a value read with dict.get: None (null or a missing
\* key), the number 0 and the empty string (JStr(0)) are falsy.
Truthy(x) ==
    CASE x.k = "num" -> x.v # 0
      [] x.k = "str" -> x.v # 0
      [] OTHER -> FALSE

\* float(x) of services.py:71: defined on numbers only here (item ids of the
\* transactions source are drawn from null and numbers).
FloatOk(x) == x.k = "num"

\* --------------------------------------------------------------- sources
Sources == <<"products", "users", "transactions">>
SourceNames == {Sources[i] : i \in 1..Len(Sources)}
UnknownName == "orders"

API_ENDPOINTS(api_name) ==
    CASE api_name = "products" -> "https://fakestoreapi.com/products"
      [] api_name = "users" -> "https://randomuser.me/api/?results=20"
      [] api_name = "transactions" -> "https://my.api.mockaroo.com/orders.json"
      [] OTHER -> ""

\* ----------------------------------------------------- raw source payloads
\* A source item.  wf = FALSE: a required key is missing (item["title"], ...,
\* item["id"] raise KeyError).  id: the value of item["id"] (products,
\* transactions) or item["login"]["uuid"] (users).
Malformed == [wf |-> FALSE, id |-> JAbsent, body |-> 0]
NumIds == {JNull} \cup {JNum(n) : n \in 0..MaxId}
StrIds == {JNull} \cup {JStr(n) : n \in 0..MaxId}
ItemIds(api_name) == IF api_name = "users" THEN StrIds ELSE NumIds
Items(api_name) ==
    {Malformed} \cup
    {[wf |-> TRUE, id |-> i, body |-> b] : i \in ItemIds(api_name), b \in 1..MaxBody}

SeqsUpTo(S, n) == UNION {[1..m -> S] : m \in 0..n}

\* The parsed JSON body of a response.  shape "list": a JSON array of items.
\* shape "results": an object with a "results" array (the users source).
\* shape "object": a non-empty object without "results".  shape "empty": {}.
\* shape "null": the JSON value null, which json() returns as None.
Payload(shape, items) == [shape |-> shape, items |-> items]
NativeShape(api_name) == IF api_name = "users" THEN "results" ELSE "list"
OtherShape(api_name) == IF api_name = "users" THEN "list" ELSE "results"
\* What an endpoint can answer: its documented shape with up to MaxFetched
\* items, the other array shape (empty, or with one item of another schema),
\* {"error": ...}, {} and null.
Payloads(api_name) ==
    {Payload(NativeShape(api_name), s) : s \in SeqsUpTo(Items(api_name), MaxFetched)}
    \cup {Payload(OtherShape(api_name), s) : s \in {<<>>, <<Malformed>>}}
    \cup {Payload("object", <<>>), Payload("empty", <<>>), Payload("null", <<>>)}

\* `if data` / `if not raw_data`: an empty list, an empty dict and None are
\* falsy.
PayloadTruthy(p) ==
    CASE p.shape = "list" -> p.items # <<>>
      [] p.shape = "empty" -> FALSE
      [] p.shape = "null" -> FALSE
      [] OTHER -> TRUE

EmptyList == Payload("list", <<>>)

AllPayloads == [s \in SourceNames |-> Payloads(s)]

\* ------------------------------------------------------------------ state
VARIABLES
    unified,        \* UnifiedEntity rows
    cache,          \* APIDataCache rows
    nextUuid,       \* uuid.uuid4(): the next value it returns
    userProfiles,   \* UserProfile rows
    categories,     \* Category rows
    products,       \* Product rows
    transactions,   \* Transaction rows
    last,           \* the latest completed call: what it was and what it returned
    allPc,          \* fetch_all_data: index of the source its loop runs next (0: not running)
    results,        \* fetch_all_data: its `results` dict so far
    resp,           \* the latest response of an insight view
    calls,          \* how many calls were started so far
    procs           \* the calls that run concurrently: each worker's position and locals

vars == <<unified, cache, nextUuid, userProfiles, categories, products,
          transactions, last, allPc, results, resp, calls, procs>>

relational == <<userProfiles, categories, products, transactions>>

\* ----------------------------------------------------------------- models
\* A UnifiedEntity row.  data.external_id is JAbsent when the data dict has no
\* "external_id" key (enriched records: services.py:127-147).
Entity(eid, etype, ext, body, amount, source, txn, user, product, category) ==
    [entity_id |-> eid, entity_type |-> etype, external_id |-> ext, body |-> body,
     amount |-> amount, source |-> source, transaction_id |-> txn, user |-> user,
     product |-> product, category |-> category]

\* Product p belongs to category p when that category exists, else to none
\* (category = 0 is the NULL foreign key).
ProductRows ==
    {[external_id |-> p, category |-> IF p <= MaxCategories THEN p ELSE 0] :
        p \in 1..MaxProducts}

TxnRow(i, u, p, a) == [external_id |-> i, user |-> u, product |-> p, amount |-> a]

\* Transaction tables: external_id is unique (models.py:115); ids are 1..n.
TxnTables ==
    UNION {
        {{TxnRow(i, f[i][1], f[i][2], f[i][3]) : i \in 1..n} :
            f \in [1..n -> (1..MaxUsers) \X (1..MaxProducts) \X (1..MaxAmount)]} :
        n \in 0..MaxTxn}

\* The tables the pipeline runs are explored over: n rows, row i of user
\* ((i-1) mod MaxUsers)+1 and product ((i-1) mod MaxProducts)+1.
PipelineTxnTables ==
    {{TxnRow(i, ((i - 1) % MaxUsers) + 1, ((i - 1) % MaxProducts) + 1,
             ((i - 1) % MaxAmount) + 1) : i \in 1..n} : n \in 0..MaxTxn}

\* A completed call: the operation, its argument, what it returned (count:
\* the number enrich returned) and, for the checks, exc: how the request of a
\* fetch ended, removed: how many rows the DELETE of enrich removed.
Call(op, arg, result, count) ==
    [op |-> op, arg |-> arg, result |-> result, count |-> count, exc |-> "",
     removed |-> 0]
NoCall == Call("none", "", "", 0)
NoResponse == [view |-> "none", status |-> 0, body |-> {}, average |-> JNull]

\* A worker (a Celery worker process or a request thread of the web server):
\* job and pc say where it is in which function, the rest are that function's
\* locals (api, data: the source and the payload of a fetch that has not
\* written the cache yet; items: the records store has not visited yet; rows: the
\* Transaction rows enrich has not visited yet; count: enriched_count) and,
\* for the checks, seen: what a read returned, old: the transaction-typed rows
\* held when an enrich started, during: whether a read ran while an enrich was
\* between its DELETE and its last INSERT, overlap: whether an enrich ran
\* while another one did.
Workers == 1..MaxWorkers
IdleProc ==
    [job |-> "idle", pc |-> "idle", api |-> "", data |-> EmptyList,
     items |-> <<>>, rows |-> <<>>, count |-> 0,
     seen |-> {}, old |-> {}, during |-> FALSE, overlap |-> FALSE]

\* The database after the migrations, before any call: the pipeline tables are
\* empty, the relational tables hold what was entered outside the pipeline.
InitTables(tables) ==
    /\ unified = {}
    /\ cache = {}
    /\ nextUuid = 1
    /\ userProfiles = 1..MaxUsers
    /\ categories = 1..MaxCategories
    /\ products = ProductRows
    /\ transactions \in tables
    /\ last = NoCall
    /\ allPc = 0
    /\ results = {}
    /\ resp = NoResponse
    /\ calls = 0
    /\ procs = [w \in Workers |-> IdleProc]

Init == InitTables(PipelineTxnTables)

\* No call is running and another one may start.
Idle == allPc = 0 /\ calls < MaxCalls

\* ------------------------------------------------------------- normalizer
SourceLabel(api_name) ==
    CASE api_name = "products" -> "FakeStoreAPI"
      [] api_name = "users" -> "RandomUserAPI"
      [] api_name = "transactions" -> "MockarooAPI"
      [] OTHER -> ""

\* An entity_type that repeats the source name.
EntityTypePlural(api_name) == api_name

EntityType(api_name) ==
    CASE api_name = "products" -> "product"
      [] api_name = "users" -> "user"
      [] api_name = "transactions" -> "transaction"
      [] OTHER -> ""

\* An amount read from the item itself.
amount_from_item(item) == JNum(item.body)

\* float(item.get("id", 1)) * 10.0
simulated_amount(item) == JNum(item.id.v * 10)

\* A normalizer that builds a record from whatever the item holds.
ItemNeverRaises(api_name, item) == FALSE

\* Whether building the record of one item raises: a missing key (KeyError), or
\* for transactions float(None) (TypeError).
ItemRaises(api_name, item) ==
    \/ ~item.wf
    \/ api_name = "transactions" /\ ~FloatOk(item.id)

transform_item(api_name, item, eid) ==
    Entity(eid, EntityType(api_name), item.id, item.body,
           IF api_name = "transactions" THEN simulated_amount(item) ELSE JAbsent,
           SourceLabel(api_name), JAbsent, 0, 0, 0)

\* The sequence the loop iterates over, or "raise" when iterating or indexing
\* fails before any item is built: `for item in raw_data` over a dict yields its
\* keys (strings), and item["id"] on a string raises TypeError; raw_data.get on
\* a list raises AttributeError.
IterRaises(api_name, raw_data) ==
    CASE api_name \in {"products", "transactions"} ->
            raw_data.shape \in {"results", "object"}
      [] api_name = "users" -> raw_data.shape = "list"
      [] OTHER -> FALSE

IterItems(api_name, raw_data) ==
    CASE api_name \in {"products", "transactions"} /\ raw_data.shape = "list" ->
            raw_data.items
      [] api_name = "users" /\ raw_data.shape = "results" -> raw_data.items
      [] OTHER -> <<>>

\* Index of the first item whose record cannot be built, 0 when there is none.
FirstBad(api_name, items) ==
    LET bad == {i \in 1..Len(items) : ItemRaises(api_name, items[i])}
    IN IF bad = {} THEN 0 ELSE CHOOSE i \in bad : \A j \in bad : i <= j

\* transform_data(api_name, raw_data), with uuid4 returning base, base+1, ...
\* raised: an exception left the function (no list is returned).
\* used: how many uuid4 values were drawn.
transform_data(api_name, raw_data, base) ==
    LET items == IterItems(api_name, raw_data)
        k == FirstBad(api_name, items)
    IN IF api_name \notin SourceNames
       THEN [raised |-> FALSE, out |-> <<>>, used |-> 0]
       ELSE IF IterRaises(api_name, raw_data)
       THEN [raised |-> TRUE, out |-> <<>>, used |-> 0]
       ELSE IF k # 0
       THEN [raised |-> TRUE, out |-> <<>>, used |-> k]
       ELSE [raised |-> FALSE,
             out |-> [i \in 1..Len(items) |->
                        transform_item(api_name, items[i], base + i - 1)],
             used |-> Len(items)]

\* ------------------------------------------------------ deduplicating store
\* A lookup that also matches the transaction id an enriched row embeds.
ExistsEmbedded(db, ext_id) ==
    \E r \in db : r.external_id = ext_id \/ r.transaction_id.v = ext_id.v

\* UnifiedEntity.objects.filter(data__external_id=ext_id).exists(): a JSON key
\* lookup at the top level of data; a row without the key never matches.
Exists(db, ext_id) == \E r \in db : r.external_id = ext_id

\* services.py:101 without the existence check.
ShouldCreateNoExists(db, item) == Truthy(item.external_id)

\* The test of services.py:101.
ShouldCreate(db, item) ==
    Truthy(item.external_id) /\ ~Exists(db, item.external_id)

\* UnifiedEntity.objects.create(**item): entity_id is unique (models.py:39), so
\* an INSERT of an entity_id the table holds raises IntegrityError.
CreateRaises(db, item) == \E r \in db : r.entity_id = item.entity_id

\* store_transformed_data(transformed_data) on table db: the table afterwards,
\* and whether an exception left the loop.
\* A store that refreshes: the row holding the identity is replaced by the
\* incoming record.
RECURSIVE store_refreshing(_, _)
store_refreshing(db, transformed_data) ==
    IF transformed_data = <<>>
    THEN [db |-> db, raised |-> FALSE]
    ELSE LET item == Head(transformed_data)
             others == {r \in db : r.external_id # item.external_id}
         IN IF ~Truthy(item.external_id)
            THEN store_refreshing(db, Tail(transformed_data))
            ELSE store_refreshing(others \cup {item}, Tail(transformed_data))

RECURSIVE store_transformed_data(_, _)
store_transformed_data(db, transformed_data) ==
    IF transformed_data = <<>>
    THEN [db |-> db, raised |-> FALSE]
    ELSE LET item == Head(transformed_data)
         IN IF ~ShouldCreate(db, item)
            THEN store_transformed_data(db, Tail(transformed_data))
            ELSE IF CreateRaises(db, item)
            THEN [db |-> db, raised |-> TRUE]
            ELSE store_transformed_data(db \cup {item}, Tail(transformed_data))

\* Batches a caller can pass to store: the normalization of a payload.
AllBatchPayloads ==
    [s \in SourceNames |->
        {Payload(NativeShape(s), q) : q \in SeqsUpTo(Items(s), MaxItems)}]
FreshBatches ==
    UNION {{transform_data(s, p, nextUuid) : p \in AllBatchPayloads[s]} :
            s \in SourceNames}

\* store(records) on a freshly normalized batch.
Store ==
    /\ Idle
    /\ \E t \in FreshBatches :
        LET st == store_transformed_data(unified, t.out)
        IN /\ ~t.raised
           /\ unified' = st.db
           /\ nextUuid' = nextUuid + t.used
           /\ last' = Call("store", "", IF st.raised THEN "raise" ELSE "ok", 0)
    /\ calls' = calls + 1
    /\ UNCHANGED <<cache, relational, allPc, results, resp, procs>>

\* ---------------------------------------------------------- source adapter
\* What requests.get(url, timeout=10) followed by raise_for_status() and
\* response.json() ends with: an exception, or the parsed body.
Failures == {"Timeout", "ConnectionError", "HTTPError", "JSONDecodeError"}
Failure(e) == [ok |-> FALSE, exc |-> e, data |-> EmptyList]
Success(p) == [ok |-> TRUE, exc |-> "", data |-> p]
Outcomes(api_name) ==
    {Failure(e) : e \in Failures}
    \cup {Success(p) : p \in IF api_name \in SourceNames THEN AllPayloads[api_name]
                              ELSE {EmptyList}}

\* An except clause that leaves a body that is not JSON uncaught.
CaughtTransportOnly(exc) == exc \in {"Timeout", "ConnectionError", "HTTPError"}

\* `except requests.exceptions.RequestException`: Timeout, ConnectionError,
\* HTTPError and requests' JSONDecodeError are all subclasses of it.
Caught(exc) == exc \in {"Timeout", "ConnectionError", "HTTPError", "JSONDecodeError"}

\* APIDataCache.objects.update_or_create(endpoint=url, defaults=...): one row
\* matches: it is updated; none: a row is created; several:
\* MultipleObjectsReturned.  response_data is a JSONField without null=True
\* (models.py:154) and None is saved as SQL NULL: IntegrityError.
CacheRow(id, url, data) == [id |-> id, endpoint |-> url, response_data |-> data]
Matching(c, url) == {r \in c : r.endpoint = url}
update_or_create(c, url, data) ==
    LET m == Matching(c, url)
    IN IF Cardinality(m) > 1
       THEN [cache |-> c, exc |-> "MultipleObjectsReturned"]
       ELSE IF data.shape = "null"
       THEN [cache |-> c, exc |-> "IntegrityError"]
       ELSE IF m = {}
       THEN [cache |-> c \cup {CacheRow(Cardinality(c) + 1, url, data)},
             exc |-> ""]
       ELSE [cache |-> {IF r \in m THEN CacheRow(r.id, url, data) ELSE r : r \in c},
             exc |-> ""]

\* fetch_data_from_api(api_name) when the request ends with outcome o.
\* raised: an exception left the function; ret: what it returned.
fetch_data_from_api(c, api_name, o) ==
    IF API_ENDPOINTS(api_name) = ""
    THEN [cache |-> c, raised |-> FALSE, ret |-> EmptyList]
    ELSE IF ~o.ok
    THEN [cache |-> c, raised |-> ~Caught(o.exc), ret |-> EmptyList]
    ELSE LET u == update_or_create(c, API_ENDPOINTS(api_name), o.data)
         IN IF u.exc # ""
            THEN [cache |-> u.cache, raised |-> ~Caught(u.exc), ret |-> EmptyList]
            ELSE [cache |-> u.cache, raised |-> FALSE,
                  ret |-> IF PayloadTruthy(o.data) THEN o.data ELSE EmptyList]

Names == SourceNames \cup {UnknownName}

\* fetch(source_name)
Fetch ==
    /\ Idle
    /\ \E api_name \in Names : \E o \in Outcomes(api_name) :
        LET f == fetch_data_from_api(cache, api_name, o)
        IN /\ cache' = f.cache
           /\ last' = [Call("fetch", api_name,
                            IF f.raised THEN "raise"
                            ELSE IF f.ret = EmptyList THEN "empty" ELSE "data", 0)
                         EXCEPT !.exc = IF o.ok THEN "ok" ELSE o.exc]
    /\ calls' = calls + 1
    /\ UNCHANGED <<unified, nextUuid, relational, allPc, results, resp, procs>>

\* ------------------------------------------------------------ orchestrator
\* fetch_and_store_data(api_name) when the request ends with outcome o: the
\* tables afterwards and the returned message ("raise": an exception left it).
fetch_and_store_data(db, c, base, api_name, o) ==
    LET f == fetch_data_from_api(c, api_name, o)
        t == transform_data(api_name, f.ret, base)
        st == store_transformed_data(db, t.out)
    IN IF f.raised
       THEN [db |-> db, cache |-> f.cache, used |-> 0, msg |-> "raise"]
       ELSE IF ~PayloadTruthy(f.ret)
       THEN [db |-> db, cache |-> f.cache, used |-> 0, msg |-> "Failed"]
       ELSE IF t.raised
       THEN [db |-> db, cache |-> f.cache, used |-> t.used, msg |-> "raise"]
       ELSE [db |-> st.db, cache |-> f.cache, used |-> t.used,
             msg |-> IF st.raised THEN "raise" ELSE "Processed"]

\* run(source_name)
Run ==
    /\ Idle
    /\ \E api_name \in Names : \E o \in Outcomes(api_name) :
        LET r == fetch_and_store_data(unified, cache, nextUuid, api_name, o)
        IN /\ unified' = r.db
           /\ cache' = r.cache
           /\ nextUuid' = nextUuid + r.used
           /\ last' = Call("run", api_name, r.msg, 0)
    /\ calls' = calls + 1
    /\ UNCHANGED <<relational, allPc, results, resp, procs>>

\* fetch_all_data(): one iteration of its loop per step, because each
\* iteration receives one response; no other call starts while the loop runs.
\* An exception leaving fetch_and_store_data leaves fetch_all_data as well:
\* the loop stops and `results` is never returned.
RunAll ==
    LET idx == IF allPc = 0 THEN 1 ELSE allPc
        api_name == Sources[idx]
        sofar == IF allPc = 0 THEN {} ELSE results
    IN \E o \in Outcomes(api_name) :
        LET r == fetch_and_store_data(unified, cache, nextUuid, api_name, o)
            done == r.msg = "raise" \/ idx = Len(Sources)
        IN /\ allPc = 0 => Idle /\ calls + Len(Sources) <= MaxCalls
           /\ calls' = calls + 1
           /\ unified' = r.db
           /\ cache' = r.cache
           /\ nextUuid' = nextUuid + r.used
           /\ results' = IF r.msg = "raise" THEN sofar
                         ELSE sofar \cup {[name |-> api_name, msg |-> r.msg]}
           /\ allPc' = IF done THEN 0 ELSE idx + 1
           /\ last' = IF done
                       THEN Call("run_all", "", IF r.msg = "raise" THEN "raise" ELSE "ok", 0)
                       ELSE last
           /\ UNCHANGED <<relational, resp, procs>>

\* ------------------------------------------------------- enrichment engine
\* A filter that selects every row.
AnyTyped(db) == db

\* filter(entity_type="transaction")
TxnTyped(db) == {r \in db : r.entity_type = "transaction"}

\* The orders in which `for trans in transactions` can visit the rows: the
\* queryset has no order_by and Transaction no Meta.ordering.
Orders(rows) ==
    {f \in [1..Cardinality(rows) -> rows] :
        \A i, j \in 1..Cardinality(rows) : i # j => f[i] # f[j]}

CategoryOf(prods, p) ==
    LET row == CHOOSE r \in prods : r.external_id = p IN row.category

\* An enriched record labelled like a record of the transactions source.
enriched_entity_unlabelled(trans, prods, eid) ==
    Entity(eid, "transaction", JAbsent, 0, JStr(trans.amount), "MockarooAPI",
           JStr(trans.external_id), trans.user, trans.product,
           CategoryOf(prods, trans.product))

\* The record services.py:127-157 builds for one Transaction row.
enriched_entity(trans, prods, eid) ==
    Entity(eid, "transaction", JAbsent, 0, JStr(trans.amount), "Enriched Data",
           JStr(trans.external_id), trans.user, trans.product,
           CategoryOf(prods, trans.product))

\* enrich_transactions without the DELETE of services.py:121.
enrich_without_delete(db, rows, prods, base, failAt) ==
    LET n == IF failAt = 0 THEN Len(rows) ELSE failAt - 1
    IN [kept |-> db,
        db |-> db \cup {enriched_entity(rows[i], prods, base + i - 1) : i \in 1..n},
        raised |-> failAt # 0,
        enriched_count |-> n,
        used |-> IF failAt = 0 THEN Len(rows) ELSE failAt]

\* enrich_transactions inside one transaction: a failure undoes the DELETE and
\* the INSERTs.
enrich_atomic(db, rows, prods, base, failAt) ==
    LET n == IF failAt = 0 THEN Len(rows) ELSE failAt - 1
        kept == db \ TxnTyped(db)
    IN [kept |-> IF failAt = 0 THEN kept ELSE db,
        db |-> IF failAt = 0
               THEN kept \cup {enriched_entity(rows[i], prods, base + i - 1) : i \in 1..n}
               ELSE db,
        raised |-> failAt # 0,
        enriched_count |-> n,
        used |-> IF failAt = 0 THEN Len(rows) ELSE failAt]

\* enrich_transactions() visiting the rows in order `rows`; failAt = k > 0: the
\* k-th iteration raises before its INSERT takes effect (the database refuses
\* it); failAt = 0: no iteration raises.
enrich_transactions(db, rows, prods, base, failAt) ==
    LET kept == db \ TxnTyped(db)
        n == IF failAt = 0 THEN Len(rows) ELSE failAt - 1
    IN [kept |-> kept,
        db |-> kept \cup {enriched_entity(rows[i], prods, base + i - 1) : i \in 1..n},
        raised |-> failAt # 0,
        enriched_count |-> n,
        used |-> IF failAt = 0 THEN Len(rows) ELSE failAt]

\* EnrichTransactionsView.post: 200 with the count, or 500 when
\* enrich_transactions raised.
Enrich ==
    /\ Idle
    /\ \E rows \in Orders(transactions) : \E failAt \in 0..Len(rows) :
        LET e == enrich_transactions(unified, rows, products, nextUuid, failAt)
        IN /\ unified' = e.db
           /\ nextUuid' = nextUuid + e.used
           /\ last' = [Call("enrich", "", IF e.raised THEN "500" ELSE "200",
                            e.enriched_count)
                         EXCEPT !.removed = Cardinality(unified \ e.kept)]
    /\ calls' = calls + 1
    /\ UNCHANGED <<cache, relational, allPc, results, resp, procs>>

\* ------------------------------------------------------ insight aggregator
\* A join that pairs every user with every Transaction row.
TxnsOfAnyUser(u) == transactions

\* The rows of transactions__ for user u: the Transaction rows whose user
\* foreign key is u (related_name="transactions", models.py:116).

TxnsOfUser(u) == {t \in transactions : t.user = u}

RECURSIVE SumAmount(_)
SumAmount(rows) ==
    IF rows = {} THEN 0
    ELSE LET t == CHOOSE t \in rows : TRUE IN t.amount + SumAmount(rows \ {t})

\* SQL SUM over the joined rows: NULL when there is none.
SqlSum(rows) == IF rows = {} THEN JNull ELSE JNum(SumAmount(rows))

\* UserInsightsView.get: UserProfile LEFT JOIN Transaction, one row per user.
UserInsights ==
    /\ resp' = [view |-> "users", status |-> 200,
                body |-> {[external_id |-> u, total_spent |-> SqlSum(TxnsOfUser(u))] :
                            u \in userProfiles},
                average |-> JNull]
    /\ UNCHANGED <<unified, cache, nextUuid, relational, last, allPc, results, calls, procs>>

\* A join that pairs every category with every Transaction row.
TxnsOfAnyCategory(c) == transactions

\* The rows of products__transactions for category c.

TxnsOfCategory(c) ==
    {t \in transactions :
        \E p \in products : p.external_id = t.product /\ p.category = c}

\* SQL AVG: NULL over no row, else the mean, kept as the pair sum / count.
SqlAvg(rows) ==
    IF rows = {} THEN JNull
    ELSE [k |-> "ratio", v |-> <<SumAmount(rows), Cardinality(rows)>>]

\* avg_transaction.get("average_value") or 0
OrZero(x) == IF x.k = "null" \/ (x.k = "ratio" /\ x.v[1] = 0) THEN JNum(0) ELSE x

\* ProductInsightsView.get
ProductInsights ==
    /\ resp' = [view |-> "products", status |-> 200,
                body |-> {[name |-> c,
                           transaction_count |-> Cardinality(TxnsOfCategory(c))] :
                            c \in categories},
                average |-> OrZero(SqlAvg(transactions))]
    /\ UNCHANGED <<unified, cache, nextUuid, relational, last, allPc, results, calls, procs>>

\* ------------------------------------------------------ overlapping calls
\* Calls that overlap in time: the periodic fetch_all_data of celery.py:19-24,
\* the one CoreConfig.ready queues at start, the admin action and the views
\* run in different processes on one database.  The connection is in
\* autocommit mode and no function opens a transaction, so every ORM
\* statement is one atomic step and the steps of different workers interleave.
sequential == <<last, allPc, results, resp>>
CanStart(w) == procs[w].pc \in {"idle", "done"} /\ calls < MaxCalls

\* fetch_and_store_data up to the cache write: the request ends with outcome
\* o, and update_or_create looks the endpoint's row up.  It finds one row: it
\* holds the row (select_for_update) until it has written it, so the lookup
\* and the UPDATE are one step, followed by normalization.  It finds none:
\* the INSERT is a later step (ConcCacheCreate); no constraint makes the
\* endpoint unique (models.py:153), so nothing stops two workers that both
\* found none from both inserting.  It finds several: MultipleObjectsReturned
\* leaves the function.
Normalize(w, api_name, data) ==
    LET t == transform_data(api_name, data, nextUuid)
        stop == ~PayloadTruthy(data) \/ t.raised \/ t.out = <<>>
    IN /\ nextUuid' = IF ~PayloadTruthy(data) THEN nextUuid ELSE nextUuid + t.used
       /\ procs' = [procs EXCEPT ![w] =
                        [IdleProc EXCEPT !.job = "run",
                                         !.pc = IF stop THEN "done" ELSE "check",
                                         !.items = IF stop THEN <<>> ELSE t.out]]

ConcFetch(w) ==
    /\ CanStart(w)
    /\ \E api_name \in SourceNames : \E o \in Outcomes(api_name) :
        LET m == Matching(cache, API_ENDPOINTS(api_name))
            u == update_or_create(cache, API_ENDPOINTS(api_name), o.data)
        IN IF ~o.ok \/ u.exc # ""
           THEN /\ procs' = [procs EXCEPT ![w] =
                                [IdleProc EXCEPT !.job = "run", !.pc = "done"]]
                /\ UNCHANGED <<cache, nextUuid>>
           ELSE IF m = {}
           THEN /\ procs' = [procs EXCEPT ![w] =
                                [IdleProc EXCEPT !.job = "run", !.pc = "cache",
                                                 !.api = api_name, !.data = o.data]]
                /\ UNCHANGED <<cache, nextUuid>>
           ELSE /\ cache' = u.cache
                /\ Normalize(w, api_name, o.data)
    /\ calls' = calls + 1
    /\ UNCHANGED <<unified, relational, sequential>>

\* The INSERT of update_or_create after a lookup that found no row, followed
\* by normalization.
ConcCacheCreate(w) ==
    /\ procs[w].pc = "cache"
    /\ cache' = cache \cup {CacheRow(Cardinality(cache) + 1,
                                     API_ENDPOINTS(procs[w].api), procs[w].data)}
    /\ Normalize(w, procs[w].api, procs[w].data)
    /\ UNCHANGED <<unified, relational, sequential, calls>>

\* services.py:100-101: the existence query for the next record.
ConcCheck(w) ==
    /\ procs[w].pc = "check"
    /\ LET item == Head(procs[w].items)
           rest == Tail(procs[w].items)
       IN procs' = [procs EXCEPT ![w] =
                        IF ShouldCreate(unified, item)
                        THEN [@ EXCEPT !.pc = "create"]
                        ELSE [@ EXCEPT !.items = rest,
                                       !.pc = IF rest = <<>> THEN "done" ELSE "check"]]
    /\ UNCHANGED <<unified, cache, nextUuid, relational, sequential, calls>>

\* services.py:102: the INSERT the query allowed.
ConcCreate(w) ==
    /\ procs[w].pc = "create"
    /\ LET item == Head(procs[w].items)
           rest == Tail(procs[w].items)
       IN IF CreateRaises(unified, item)
          THEN /\ unified' = unified
               /\ procs' = [procs EXCEPT ![w] = [@ EXCEPT !.pc = "done", !.items = <<>>]]
          ELSE /\ unified' = unified \cup {item}
               /\ procs' = [procs EXCEPT ![w] =
                                [@ EXCEPT !.items = rest,
                                          !.pc = IF rest = <<>> THEN "done" ELSE "check"]]
    /\ UNCHANGED <<cache, nextUuid, relational, sequential, calls>>

Enriching(v) == procs[v].job = "enrich" /\ procs[v].pc = "insert"

\* services.py:121-124: the DELETE, and the query the loop iterates over.
ConcDelete(w) ==
    /\ CanStart(w)
    /\ \E rows \in Orders(transactions) :
        LET others == {v \in Workers \ {w} : Enriching(v)}
        IN procs' = [v \in Workers |->
                        IF v = w
                        THEN [IdleProc EXCEPT !.job = "enrich",
                                              !.pc = IF rows = <<>> THEN "done" ELSE "insert",
                                              !.rows = rows,
                                              !.old = TxnTyped(unified),
                                              !.overlap = others # {}]
                        ELSE IF v \in others
                        THEN [procs[v] EXCEPT !.overlap = TRUE]
                        ELSE procs[v]]
    /\ unified' = unified \ TxnTyped(unified)
    /\ calls' = calls + 1
    /\ UNCHANGED <<cache, nextUuid, relational, sequential>>

\* services.py:126-158: one iteration of the loop: one INSERT.
ConcInsert(w) ==
    /\ procs[w].pc = "insert"
    /\ LET rest == Tail(procs[w].rows)
       IN /\ unified' = unified \cup
                {enriched_entity(Head(procs[w].rows), products, nextUuid)}
          /\ procs' = [procs EXCEPT ![w] =
                            [@ EXCEPT !.rows = rest,
                                      !.count = @ + 1,
                                      !.pc = IF rest = <<>> THEN "done" ELSE "insert"]]
    /\ nextUuid' = nextUuid + 1
    /\ UNCHANGED <<cache, relational, sequential, calls>>

\* DataByTypeView.get("transaction"): one query.
ConcRead(w) ==
    /\ CanStart(w)
    /\ LET writers == {v \in Workers \ {w} : Enriching(v)}
       IN procs' = [procs EXCEPT ![w] =
                        [IdleProc EXCEPT !.job = "read",
                                         !.pc = "done",
                                         !.seen = TxnTyped(unified),
                                         !.during = writers # {},
                                         !.old = UNION {procs[v].old : v \in writers}]]
    /\ calls' = calls + 1
    /\ UNCHANGED <<unified, cache, nextUuid, relational, sequential>>

\* --------------------------------------------------------- specifications
\* Non-overlapping calls of the pipeline.
Next ==
    \/ Store
    \/ Run
    \/ RunAll
    \/ Enrich

Spec == Init /\ [][Next]_vars

\* The deduplicating store and the enrichment engine alone.
NextStore ==
    \/ Store
    \/ Enrich
SpecStore == Init /\ [][NextStore]_vars

\* Overlapping calls.
NextConc ==
    \E w \in Workers :
        \/ ConcFetch(w)
        \/ ConcCacheCreate(w)
        \/ ConcCheck(w)
        \/ ConcCreate(w)
        \/ ConcDelete(w)
        \/ ConcInsert(w)
        \/ ConcRead(w)
SpecConc == Init /\ [][NextConc]_vars

\* Runs of single sources alone.
NextRun == Run
SpecRun == Init /\ [][NextRun]_vars

\* The source adapter alone.
NextFetch == Fetch
SpecFetch == Init /\ [][NextFetch]_vars

\* The insight views over every relational table within the bounds.
InitInsights == InitTables(TxnTables)
NextInsights ==
    \/ UserInsights
    \/ ProductInsights
SpecInsights == InitInsights /\ [][NextInsights]_vars

\* ------------------------------------------------------------------ claims
HasIdentity(r) == r.external_id.k # "absent"

\* C1: store is idempotent: from every reachable store content and for every
\* normalized batch, storing the batch a second time changes nothing and does
\* not fail: the table after two calls is the table after one.
C1_StoreIdempotent ==
    \A t \in FreshBatches :
        ~t.raised =>
            LET once == store_transformed_data(unified, t.out)
                twice == store_transformed_data(once.db, t.out)
            IN ~once.raised /\ ~twice.raised /\ twice.db = once.db

\* C1 witness: a store call has run, the table is not empty, and some batch
\* still inserts a record into it.
C1_Witness ==
    /\ last.op = "store"
    /\ unified # {}
    /\ \E t \in FreshBatches :
        ~t.raised /\ store_transformed_data(unified, t.out).db # unified

\* C2: in every state reached by non-overlapping run, run_all, store and
\* enrich calls, no two rows carry the same external identity in their data.
C2_UniqueExternalId ==
    \A r1, r2 \in unified :
        HasIdentity(r1) /\ r1.external_id = r2.external_id => r1 = r2

\* C2 witness: two rows with an identity are held after a call that
\* normalized more records than the table holds (one was a duplicate).
C2_Witness ==
    /\ last.op \in {"run", "store"}
    /\ Cardinality({r \in unified : HasIdentity(r)}) >= 2
    /\ nextUuid - 1 > Cardinality(unified)

\* C3: while ingestion runs overlap, the table never holds two rows with the
\* same external identity.
C3_UniqueUnderOverlap ==
    \A r1, r2 \in unified :
        (HasIdentity(r1) /\ HasIdentity(r2) /\ r1.entity_id # r2.entity_id)
            => r1.external_id # r2.external_id

\* A step of Spec that is one whole call of the given operation.
IsCall(op) == allPc = 0 /\ allPc' = 0 /\ calls' = calls + 1 /\ last'.op = op

\* C4: an enrich call that runs alone and completes leaves as many
\* transaction-typed rows as there are Transaction rows, returns that number,
\* and none of the transaction-typed rows held before it remains.
C4_EnrichReplaces ==
    [][IsCall("enrich") /\ last'.result = "200" =>
        /\ Cardinality(TxnTyped(unified')) = Cardinality(transactions)
        /\ last'.count = Cardinality(transactions)
        /\ \A old \in TxnTyped(unified) : \A new \in TxnTyped(unified') :
            old.entity_id # new.entity_id]_vars

\* C4 witness: enrich completed, built two rows and removed rows held before.
C4_Witness ==
    /\ last.op = "enrich"
    /\ last.result = "200"
    /\ last.count = 2
    /\ last.removed >= 1

\* C5: when two enrich calls that overlapped have both completed, there are as
\* many transaction-typed rows as Transaction rows.
C5_EnrichSerialized ==
    (\A w \in Workers :
        procs[w].job = "enrich" /\ procs[w].pc = "done" /\ procs[w].overlap)
        => Cardinality(TxnTyped(unified)) = Cardinality(transactions)

\* C6: a read of the transaction-typed rows that runs while an enrich call is
\* between its DELETE and its last INSERT, when Transaction rows exist and
\* transaction-typed rows were held before that call, returns all the rows
\* held before the call or all the rows the call builds.
C6_ReadSeesWholeSet ==
    \A w \in Workers :
        (/\ procs[w].job = "read"
         /\ procs[w].during
         /\ procs[w].old # {}
         /\ transactions # {})
        => \/ procs[w].seen = procs[w].old
           \/ /\ Cardinality(procs[w].seen) = Cardinality(transactions)
              /\ procs[w].seen \cap procs[w].old = {}

\* C7: when run_all ends, every configured source was run and the returned
\* mapping holds an outcome message for each of them.
C7_RunAllIndependent ==
    last.op = "run_all" =>
        /\ last.result = "ok"
        /\ \A s \in SourceNames : \E e \in results : e.name = s

\* The identities a payload presents: the id of each of its items that has one.
Presented(api_name, p) ==
    {IterItems(api_name, p)[i].id : i \in 1..Len(IterItems(api_name, p))}
        \ {JNull, JAbsent}

Cached(c, api_name) ==
    (CHOOSE r \in Matching(c, API_ENDPOINTS(api_name)) : TRUE).response_data

\* C8: a run whose fetch yielded no data reports failure and leaves the store
\* unchanged; a run that normalizes and stores reports success, and then every
\* identity its payload presents is held by exactly one row.
C8_RunContract ==
    [][IsCall("run") =>
        /\ last'.result = "Failed" => unified' = unified
        /\ last'.result = "Processed" =>
            \A e \in Presented(last'.arg, Cached(cache', last'.arg)) :
                Cardinality({r \in unified' : r.external_id = e}) = 1]_vars

\* C9: for an unknown name, and for a request that ends in a timeout, a
\* connection error, a non-success status or a body that is not JSON, fetch
\* lets no error reach its caller: it returns the empty result, and takes
\* nothing of the response (the cache is as before).
C9_FetchNeverRaises ==
    [][(IsCall("fetch") /\ (last'.exc # "ok" \/ last'.arg \notin SourceNames)) =>
        (last'.result = "empty" /\ cache' = cache)]_vars

\* C9 witness: a fetch ended in a timeout after an earlier fetch had cached a
\* payload.
C9_Witness ==
    /\ last.op = "fetch"
    /\ last.exc = "Timeout"
    /\ last.result = "empty"
    /\ cache # {}

\* C10: insights_users reports total_spent = 0, not null, for every user
\* without transactions.
C10_ZeroTotal ==
    resp.view = "users" =>
        /\ resp.status = 200
        /\ \A e \in resp.body :
            TxnsOfUser(e.external_id) = {} => e.total_spent = JNum(0)

\* The amount of Transaction row i when it is one of rows, else 0, and the
\* total of these over the rows 1..n of the table.
AmountAt(rows, i) ==
    LET r == {t \in rows : t.external_id = i}
    IN IF r = {} THEN 0 ELSE (CHOOSE t \in r : TRUE).amount
RECURSIVE TotalUpTo(_, _)
TotalUpTo(rows, n) ==
    IF n = 0 THEN 0 ELSE AmountAt(rows, n) + TotalUpTo(rows, n - 1)
Total(rows) == TotalUpTo(rows, Cardinality(transactions))

\* C11: insights_users returns exactly one entry per user, and the entry of a
\* user with at least one transaction carries the sum of the amounts of that
\* user's transactions and of no other.
C11_TotalSpent ==
    resp.view = "users" =>
        /\ {e.external_id : e \in resp.body} = userProfiles
        /\ Cardinality(resp.body) = Cardinality(userProfiles)
        /\ \A e \in resp.body :
            LET mine == {t \in transactions : t.user = e.external_id}
            IN mine # {} => e.total_spent = JNum(Total(mine))

\* C11 witness: a user with two transactions, of amounts 1 and 2, is reported
\* with a total of 3.
C11_Witness ==
    /\ resp.view = "users"
    /\ \E e \in resp.body :
        /\ e.total_spent = JNum(3)
        /\ {t.amount : t \in {t \in transactions : t.user = e.external_id}} = {1, 2}
    /\ Cardinality(transactions) = 2

\* C12: insights_products returns one entry per category, whose
\* transaction_count is the number of transactions of products of that
\* category (transactions of products without a category are counted in no
\* entry), and the mean amount over all transactions, or 0 when there is none.
C12_CategoryCounts ==
    resp.view = "products" =>
        /\ {e.name : e \in resp.body} = categories
        /\ Cardinality(resp.body) = Cardinality(categories)
        /\ \A e \in resp.body :
            e.transaction_count =
                Cardinality({t \in transactions :
                    \E p \in products :
                        p.external_id = t.product /\ p.category = e.name})
        /\ resp.average =
            IF transactions = {} THEN JNum(0)
            ELSE [k |-> "ratio",
                  v |-> <<Total(transactions), Cardinality(transactions)>>]

\* C12 witness: of two transactions one is of a product without a category,
\* and the only category is reported with a count of 1.
C12_Witness ==
    /\ resp.view = "products"
    /\ Cardinality(transactions) = 2
    /\ \E t \in transactions : \E p \in products :
        p.external_id = t.product /\ p.category = 0
    /\ \E e \in resp.body : e.transaction_count = 1

\* C13: a product- or user-typed row, once stored, is never changed or
\* deleted: every step of run, run_all, store and enrich keeps it as it is
\* (entity_id, data and source), also when the step ingests an item of the
\* same identity with another body.
C13_NeverRefreshed ==
    [][\A r \in unified : r.entity_type \in {"product", "user"} => r \in unified']_vars

\* C13 witness: a run has just ingested an item whose identity a product- or
\* user-typed row holds with another body, and the row has the first body.
C13_Witness ==
    /\ last.op = "run"
    /\ last.result = "Processed"
    /\ \E r \in unified :
        /\ r.entity_type \in {"product", "user"}
        /\ r.entity_type = EntityType(last.arg)
        /\ r.entity_id < nextUuid - 1
        /\ LET items == IterItems(last.arg, Cached(cache, last.arg))
           IN \E i \in 1..Len(items) :
                items[i].id = r.external_id /\ items[i].body # r.body

\* The (entity_type, external identity) pairs a table holds.
TypedIdentities(db) ==
    {<<r.entity_type, r.external_id>> : r \in {r \in db : HasIdentity(r)}}

\* The table after a run of source s1 answered with p1 followed by a run of
\* source s2 answered with p2.
RunBoth(s1, p1, s2, p2) ==
    LET a == fetch_and_store_data(unified, cache, nextUuid, s1, Success(p1))
        b == fetch_and_store_data(a.db, a.cache, nextUuid + a.used, s2, Success(p2))
    IN [db |-> b.db, ok |-> a.msg = "Processed" /\ b.msg = "Processed"]

\* C14: for two distinct sources and any payloads of theirs, the stored
\* (entity_type, external identity) pairs after running both are the same
\* whichever source runs first.
C14_SourcesDisjoint ==
    \A s1, s2 \in SourceNames : \A p1 \in AllPayloads[s1] : \A p2 \in AllPayloads[s2] :
        LET x == RunBoth(s1, p1, s2, p2)
            y == RunBoth(s2, p2, s1, p1)
        IN (s1 # s2 /\ x.ok /\ y.ok) =>
            TypedIdentities(x.db) = TypedIdentities(y.db)

\* The records of normalizing item of source s with uuid4 returning base.
Normalized(s, item, base) ==
    transform_data(s, Payload(NativeShape(s), <<item>>), base)

\* Normalizing item of source s twice, a then b, and storing both: in one
\* batch, and in two successive calls.
StoredTwice(s, item) ==
    LET a == Normalized(s, item, nextUuid).out[1]
        b == Normalized(s, item, nextUuid + 1).out[1]
    IN [a |-> a, b |-> b,
        batch |-> store_transformed_data(unified, <<a, b>>).db,
        calls |-> store_transformed_data(
                      store_transformed_data(unified, <<a>>).db, <<b>>).db]
Normalizable(s) == {item \in Items(s) : ~Normalized(s, item, nextUuid).raised}

C16_OnePerItem ==
    /\ \A s \in SourceNames : \A p \in AllBatchPayloads[s] :
        LET t == transform_data(s, p, nextUuid)
        IN ~t.raised =>
            /\ Len(t.out) = Len(p.items)
            /\ \A i \in 1..Len(p.items) :
                /\ t.out[i].external_id = p.items[i].id
                /\ t.out[i].body = p.items[i].body
                /\ t.out[i].entity_type =
                    (CASE s = "products" -> "product"
                       [] s = "users" -> "user"
                       [] s = "transactions" -> "transaction")
            /\ \A i, j \in 1..Len(t.out) :
                i < j => t.out[i].entity_id < t.out[j].entity_id
    /\ \A s \in SourceNames : \A p \in AllBatchPayloads[s] :
        LET t == transform_data(UnknownName, p, nextUuid)
        IN ~t.raised /\ t.out = <<>>

\* C16 witness: a store call has normalized a batch of two transaction items
\* and persisted the record of the first, which carries that item's identity
\* and the type "transaction".
C16_Witness ==
    /\ last.op = "store"
    /\ \E r \in unified :
        /\ r.entity_id = nextUuid - 2
        /\ r.entity_type = "transaction"
        /\ r.external_id = JNum(1)
    /\ \A r \in unified : r.entity_id # nextUuid - 1

\* C17: the record of every transactions item carries amount = id * 10,
\* whatever the other fields of the item are; records of the other sources
\* carry no amount.
C17_SimulatedAmount ==
    \A s \in SourceNames : \A p \in AllBatchPayloads[s] :
        LET t == transform_data(s, p, nextUuid)
        IN ~t.raised =>
            \A i \in 1..Len(t.out) :
                t.out[i].amount =
                    IF s = "transactions"
                    THEN [k |-> "num", v |-> 10 * p.items[i].id.v]
                    ELSE JAbsent

\* C17 witness: a store call has persisted a transaction record of an item
\* with id 1 and body 2, and its amount is 10.
C17_Witness ==
    /\ last.op = "store"
    /\ \E r \in unified :
        /\ r.entity_type = "transaction"
        /\ r.external_id = JNum(1)
        /\ r.body = 2
        /\ r.amount = JNum(10)

\* Payloads in the source's shape, of up to MaxItems items, that hold an item
\* lacking a required field.
WithMalformed ==
    [s \in SourceNames |->
        {p \in AllBatchPayloads[s] : \E i \in 1..Len(p.items) : ~p.items[i].wf}]

\* C18: a run whose payload holds an item that lacks a required field ends
\* with the exception leaving fetch_and_store_data, stores no record of the
\* payload (the table is as before), and has overwritten the cache entry of
\* the endpoint with the payload.
C18_MalformedFatal ==
    \A s \in SourceNames : \A p \in WithMalformed[s] :
        LET r == fetch_and_store_data(unified, cache, nextUuid, s, Success(p))
        IN /\ r.msg = "raise"
           /\ r.db = unified
           /\ {c.response_data : c \in Matching(r.cache, API_ENDPOINTS(s))} = {p}

\* C18 witness: a run has ended with an exception, its payload, held by the
\* cache, has a malformed item, and the table, which holds rows, would have
\* gained a row from a well-formed item put before a malformed one.
C18_Witness ==
    /\ last.op = "run"
    /\ last.result = "raise"
    /\ last.arg \in SourceNames
    /\ unified # {}
    /\ \E c \in Matching(cache, API_ENDPOINTS(last.arg)) :
        \E i \in 1..Len(c.response_data.items) : ~c.response_data.items[i].wf
    /\ \E p \in WithMalformed[last.arg] :
        /\ Len(p.items) = 2
        /\ p.items[1].wf
        /\ Truthy(p.items[1].id)
        /\ ~Exists(unified, p.items[1].id)

\* C19: in every reachable state, also when fetches of one source overlap,
\* the cache holds at most one row per endpoint.
C19_OneRowPerEndpoint ==
    \A r1, r2 \in cache : r1.endpoint = r2.endpoint => r1 = r2

\* The payloads the cache holds for the endpoint of source api_name.
Entries(c, api_name) ==
    {r.response_data : r \in Matching(c, API_ENDPOINTS(api_name))}

\* C20: with fetches one after the other, a fetch that fails (transport
\* failure, timeout, unknown source) leaves the whole cache unchanged; a fetch
\* whose transport succeeds leaves the payload it received, empty or not, as
\* the entry of its endpoint and changes no other endpoint's entry.
C20_CacheFollowsFetch ==
    \A api_name \in Names : \A o \in Outcomes(api_name) :
        LET f == fetch_data_from_api(cache, api_name, o)
        IN IF ~o.ok \/ api_name \notin SourceNames
           THEN f.cache = cache
           ELSE /\ Entries(f.cache, api_name) = {o.data}
                /\ \A s \in SourceNames \ {api_name} :
                    Matching(f.cache, API_ENDPOINTS(s)) = Matching(cache, API_ENDPOINTS(s))

\* The rows of a table that are not transaction slices: products and users.
Ingested(db) == {r \in db : r.entity_type \in {"product", "user"}}

\* C21: an enrich call, completed or failed, leaves every product- and
\* user-typed row, the relational tables and the cache as they were.
C21_EnrichFrame ==
    [][IsCall("enrich") =>
        /\ Ingested(unified') = Ingested(unified)
        /\ cache' = cache
        /\ relational' = relational]_vars

\* C21 witness: an enrich call has removed transaction-typed rows and built
\* new ones while product- or user-typed rows and a cache entry were held.
C21_Witness ==
    /\ last.op = "enrich"
    /\ last.removed >= 1
    /\ last.count >= 1
    /\ Ingested(unified) # {}
    /\ cache # {}

\* C22: after an enrich call that runs alone and completes, every Transaction
\* row has exactly one transaction-typed row carrying its external id, that
\* row embeds the row's user and product and the product's category (none
\* when the product has none), every transaction-typed row belongs to a
\* Transaction row, and each carries the source "Enriched Data", which no
\* record the normalizer builds carries.
C22_EnrichedMatchRows ==
    [][(IsCall("enrich") /\ last'.result = "200") =>
        /\ \A t \in transactions :
            LET mine == {r \in unified' : r.entity_type = "transaction"
                            /\ r.transaction_id = [k |-> "str", v |-> t.external_id]}
            IN /\ Cardinality(mine) = 1
               /\ \A r \in mine :
                    /\ r.user = t.user
                    /\ r.product = t.product
                    /\ \E p \in products :
                        p.external_id = t.product /\ r.category = p.category
        /\ \A r \in unified' : r.entity_type = "transaction" =>
            /\ \E t \in transactions :
                r.transaction_id = [k |-> "str", v |-> t.external_id]
            /\ r.source = "Enriched Data"
        /\ \A r \in unified' : r.entity_type # "transaction" =>
            r.source # "Enriched Data"
        /\ \A s \in SourceNames : SourceLabel(s) # "Enriched Data"]_vars

\* C22 witness: an enrich call has completed over two Transaction rows, one
\* of a product with a category and one of a product without, while ingested
\* rows were held.
C22_Witness ==
    /\ last.op = "enrich"
    /\ last.result = "200"
    /\ last.count = 2
    /\ \E r1, r2 \in unified :
        /\ r1.source = "Enriched Data" /\ r1.category = 0
        /\ r2.source = "Enriched Data" /\ r2.category # 0
    /\ \E r \in unified : r.source # "Enriched Data"

\* The external identities a table holds, and those a batch presents (a
\* record whose identity is None presents none).
Held(db) == {r.external_id : r \in {r \in db : HasIdentity(r)}}
Offered(batch) ==
    {batch[i].external_id : i \in 1..Len(batch)} \ {JNull, JAbsent}

\* C23: store skips a record without identity and a record whose identity is
\* held, without error, and persists every other record: afterwards the
\* identities held are those held before united with those the batch presents.
C23_StoreUnion ==
    \A t \in FreshBatches :
        ~t.raised =>
            LET st == store_transformed_data(unified, t.out)
            IN ~st.raised /\ Held(st.db) = Held(unified) \cup Offered(t.out)

Enriched(db) == {r \in db : r.source = "Enriched Data"}

\* The items of the payload the latest run of api_name fetched.
Fetched(c, api_name) ==
    LET items == IterItems(api_name, Cached(c, api_name))
    IN {items[i] : i \in 1..Len(items)}

\* A run of the transactions source that follows a completed enrich call and
\* reports success.
RunAfterEnrich ==
    /\ IsCall("run")
    /\ last.op = "enrich" /\ last.result = "200"
    /\ last'.arg = "transactions" /\ last'.result = "Processed"

C25_EnrichNotRolledBack ==
    [][(IsCall("enrich") /\ last'.result = "500") =>
        /\ \A old \in unified : old.entity_type = "transaction" => old \notin unified'
        /\ \A r \in unified' : r.entity_type = "transaction" =>
            r.source = "Enriched Data" /\ r.entity_id >= nextUuid
        /\ Cardinality({r \in unified' : r.entity_type = "transaction"})
                = nextUuid' - nextUuid - 1
        /\ nextUuid' - nextUuid \in 1..Cardinality(transactions)]_vars

\* C25 witness: an enrich call has failed at the second of two Transaction
\* rows after deleting rows held before: one new record remains.
C25_Witness ==
    /\ last.op = "enrich"
    /\ last.result = "500"
    /\ last.removed >= 1
    /\ Cardinality({r \in unified : r.entity_type = "transaction"}) = 1
    /\ Cardinality(transactions) = 2

====
